---- MODULE Spec2Model ----
(***************************************************************************)
(* A model of the query orchestration engine of the transcript analyser:   *)
(* the hook useOpenAI and its processData (src/unnamed/part_002).          *)
(*                                                                         *)
(* JavaScript strings are sequences of code units (natural numbers), so    *)
(* that sanitizeString, trim, toLowerCase and includes are computed on the *)
(* characters as the code computes them.  A JavaScript object is a         *)
(* sequence of <<key, value>> entries in insertion order.  The value       *)
(* undefined is the sequence Undefined, which is no string.                *)
(***************************************************************************)
EXTENDS Integers, Sequences, FiniteSets, TLC

(***************************************************************************)
(* Bounds of the model.                                                    *)
(***************************************************************************)
\* The longest message list the grouper's and the resolver's specifications draw.
MaxMsgs == 3
\* The number of remote calls of one run that the stub service may fail.
MaxFailures == 1
\* The longest string handed to sanitizeString on its own.
MaxLen == 4

(***************************************************************************)
(* Program constants.                                                      *)
(***************************************************************************)
maxConcurrentRequests == 3
maxQueueWaitTime == 10000
baseDelayMs == 800
pollDelayMs == 100
cooldownThreshold == 5
cooldownDelayMs == 1500
rateLimitDelayMs == 6000
maxDelayFactor == 3
maxErrorChars == 50

(***************************************************************************)
(* Strings of the program, as code units.                                  *)
(***************************************************************************)
Undefined == <<-1>>

\* "messageType"
KeyMessageType == <<109, 101, 115, 115, 97, 103, 101, 84, 121, 112, 101>>
\* "messageContent"
KeyMessageContent == <<109, 101, 115, 115, 97, 103, 101, 67, 111, 110, 116, 101, 110, 116>>
\* "sessionId"
KeySessionId == <<115, 101, 115, 115, 105, 111, 110, 73, 100>>
\* "messageDate"
KeyMessageDate == <<109, 101, 115, 115, 97, 103, 101, 68, 97, 116, 101>>
\* "participantIdentifier"
KeyParticipantIdentifier == <<112, 97, 114, 116, 105, 99, 105, 112, 97, 110, 116, 73, 100, 101, 110, 116, 105, 102, 105, 101, 114>>
\* "Start date"
KeyStartDate == <<83, 116, 97, 114, 116, 32, 100, 97, 116, 101>>
\* "city", an extra column of the conversation log
KeyCity == <<99, 105, 116, 121>>
\* "extract column"
PhraseExtractColumn == <<101, 120, 116, 114, 97, 99, 116, 32, 99, 111, 108, 117, 109, 110>>
\* "get column"
PhraseGetColumn == <<103, 101, 116, 32, 99, 111, 108, 117, 109, 110>>
\* "pull column"
PhrasePullColumn == <<112, 117, 108, 108, 32, 99, 111, 108, 117, 109, 110>>
\* "participant identifier"
PhraseParticipantIdentifier == <<112, 97, 114, 116, 105, 99, 105, 112, 97, 110, 116, 32, 105, 100, 101, 110, 116, 105, 102, 105, 101, 114>>
\* "rate limit"
PhraseRateLimit == <<114, 97, 116, 101, 32, 108, 105, 109, 105, 116>>
\* "service unavailable"
PhraseServiceUnavailable == <<115, 101, 114, 118, 105, 99, 101, 32, 117, 110, 97, 118, 97, 105, 108, 97, 98, 108, 101>>
\* "OpenAI API rate limit exceeded: "
MsgRateLimitPrefix == <<79, 112, 101, 110, 65, 73, 32, 65, 80, 73, 32, 114, 97, 116, 101, 32, 108, 105, 109, 105, 116, 32, 101, 120, 99, 101, 101, 100, 101, 100, 58, 32>>
\* "OpenAI API service unavailable: "
MsgUnavailablePrefix == <<79, 112, 101, 110, 65, 73, 32, 65, 80, 73, 32, 115, 101, 114, 118, 105, 99, 101, 32, 117, 110, 97, 118, 97, 105, 108, 97, 98, 108, 101, 58, 32>>
\* "API call failed: "
MsgCallFailedPrefix == <<65, 80, 73, 32, 99, 97, 108, 108, 32, 102, 97, 105, 108, 101, 100, 58, 32>>
\* "API rate limit exceeded"
PlaceholderRateLimit == <<65, 80, 73, 32, 114, 97, 116, 101, 32, 108, 105, 109, 105, 116, 32, 101, 120, 99, 101, 101, 100, 101, 100>>
\* "API service unavailable"
PlaceholderUnavailable == <<65, 80, 73, 32, 115, 101, 114, 118, 105, 99, 101, 32, 117, 110, 97, 118, 97, 105, 108, 97, 98, 108, 101>>
\* "Error: "
PlaceholderErrorPrefix == <<69, 114, 114, 111, 114, 58, 32>>
\* "Unknown error"
PlaceholderUnknown == <<85, 110, 107, 110, 111, 119, 110, 32, 101, 114, 114, 111, 114>>

(***************************************************************************)
(* JavaScript's string and object operations.                              *)
(***************************************************************************)
\* A value is truthy unless it is undefined or the empty string.
Truthy(v) == v # Undefined /\ v # <<>>

\* The code units String.prototype.trim removes (WhiteSpace and LineTerminator).
WhiteSpace ==
    {9, 10, 11, 12, 13, 32, 160, 5760, 8232, 8233, 8239, 8287, 12288, 65279}
        \cup (8192..8202)

RECURSIVE trimStart(_)
trimStart(s) ==
    IF s # <<>> /\ Head(s) \in WhiteSpace THEN trimStart(Tail(s)) ELSE s

RECURSIVE trimEnd(_)
trimEnd(s) ==
    IF s # <<>> /\ s[Len(s)] \in WhiteSpace
    THEN trimEnd(SubSeq(s, 1, Len(s) - 1))
    ELSE s

trim(s) == trimEnd(trimStart(s))

\* String.prototype.toLowerCase on the Basic Latin and Latin-1 letters.
lowerUnit(c) ==
    IF c \in 65..90 \/ (c \in 192..222 /\ c # 215) THEN c + 32 ELSE c

toLowerCase(s) == [i \in 1..Len(s) |-> lowerUnit(s[i])]

\* String.prototype.includes
includes(s, sub) ==
    \E i \in 1..(Len(s) - Len(sub) + 1) : SubSeq(s, i, i + Len(sub) - 1) = sub

\* String.prototype.substring(0, n)
substring0(s, n) == SubSeq(s, 1, IF Len(s) < n THEN Len(s) ELSE n)

\* The decimal digits of a natural number, as a string.
RECURSIVE decimal(_)
decimal(n) ==
    IF n < 10 THEN <<48 + n>> ELSE Append(decimal(n \div 10), 48 + (n % 10))

\* obj[key]: the value of the entry with that key, or undefined.
Get(obj, key) ==
    IF \E i \in 1..Len(obj) : obj[i][1] = key
    THEN obj[CHOOSE i \in 1..Len(obj) : obj[i][1] = key][2]
    ELSE Undefined

\* obj[key] = value: the entry is replaced in place, or added at the end.
Put(obj, key, value) ==
    IF \E i \in 1..Len(obj) : obj[i][1] = key
    THEN [i \in 1..Len(obj) |-> IF obj[i][1] = key THEN <<key, value>> ELSE obj[i]]
    ELSE Append(obj, <<key, value>>)

\* A property key that is an array index: the canonical decimal form of an
\* integer of at most 2^32 - 2.  Object.keys lists these keys first, ascending.
IsDigits(s) == \A i \in 1..Len(s) : s[i] \in 48..57

\* "4294967294"
MaxArrayIndex == <<52, 50, 57, 52, 57, 54, 55, 50, 57, 52>>

\* a <= b for digit strings of one length
RECURSIVE lexLeq(_, _)
lexLeq(a, b) ==
    IF a = <<>> THEN TRUE
    ELSE IF Head(a) # Head(b) THEN Head(a) < Head(b)
    ELSE lexLeq(Tail(a), Tail(b))

\* a <= b as numbers, for canonical digit strings
indexLeq(a, b) == Len(a) < Len(b) \/ (Len(a) = Len(b) /\ lexLeq(a, b))

IsArrayIndex(s) ==
    /\ s # <<>>
    /\ IsDigits(s)
    /\ (Len(s) > 1 => s[1] # 48)
    /\ indexLeq(s, MaxArrayIndex)

RECURSIVE ascending(_)
ascending(S) ==
    IF S = {} THEN <<>>
    ELSE LET m == CHOOSE x \in S : \A y \in S : indexLeq(x, y)
         IN  <<m>> \o ascending(S \ {m})

RECURSIVE Filter(_, _)
Filter(s, keep) ==
    IF s = <<>> THEN <<>>
    ELSE IF Head(s) \in keep THEN <<Head(s)>> \o Filter(Tail(s), keep)
    ELSE Filter(Tail(s), keep)

\* Object.keys(obj): the array-index keys in ascending numeric order, then the
\* other keys in insertion order.
ObjectKeys(obj) ==
    LET inserted == [i \in 1..Len(obj) |-> obj[i][1]]
        all == {inserted[i] : i \in 1..Len(obj)}
        idx == {k \in all : IsArrayIndex(k)}
    IN  ascending(idx) \o Filter(inserted, all \ idx)

(***************************************************************************)
(* Messages of the JavaScript engine for the TypeErrors the code can raise *)
(* (V8's wording), and the inherited property names of a plain object.     *)
(***************************************************************************)
\* "Failed to fetch"
MsgFailedToFetch == <<70, 97, 105, 108, 101, 100, 32, 116, 111, 32, 102, 101, 116, 99, 104>>
\* "Cannot read properties of undefined (reading '0')"
MsgReadIndex0 == <<67, 97, 110, 110, 111, 116, 32, 114, 101, 97, 100, 32, 112, 114, 111, 112, 101, 114, 116, 105, 101, 115, 32, 111, 102, 32, 117, 110, 100, 101, 102, 105, 110, 101, 100, 32, 40, 114, 101, 97, 100, 105, 110, 103, 32, 39, 48, 39, 41>>
\* "Cannot read properties of undefined (reading 'message')"
MsgReadMessage == <<67, 97, 110, 110, 111, 116, 32, 114, 101, 97, 100, 32, 112, 114, 111, 112, 101, 114, 116, 105, 101, 115, 32, 111, 102, 32, 117, 110, 100, 101, 102, 105, 110, 101, 100, 32, 40, 114, 101, 97, 100, 105, 110, 103, 32, 39, 109, 101, 115, 115, 97, 103, 101, 39, 41>>
\* "Cannot read properties of undefined (reading 'slice')"
MsgReadSlice == <<67, 97, 110, 110, 111, 116, 32, 114, 101, 97, 100, 32, 112, 114, 111, 112, 101, 114, 116, 105, 101, 115, 32, 111, 102, 32, 117, 110, 100, 101, 102, 105, 110, 101, 100, 32, 40, 114, 101, 97, 100, 105, 110, 103, 32, 39, 115, 108, 105, 99, 101, 39, 41>>
\* "messages.slice is not a function"
MsgSliceNotFunction == <<109, 101, 115, 115, 97, 103, 101, 115, 46, 115, 108, 105, 99, 101, 32, 105, 115, 32, 110, 111, 116, 32, 97, 32, 102, 117, 110, 99, 116, 105, 111, 110>>
\* "constructor"
ProtoConstructor == <<99, 111, 110, 115, 116, 114, 117, 99, 116, 111, 114>>
\* "toString"
ProtoToString == <<116, 111, 83, 116, 114, 105, 110, 103>>
\* "valueOf"
ProtoValueOf == <<118, 97, 108, 117, 101, 79, 102>>
\* "hasOwnProperty"
ProtoHasOwnProperty == <<104, 97, 115, 79, 119, 110, 80, 114, 111, 112, 101, 114, 116, 121>>
\* "isPrototypeOf"
ProtoIsPrototypeOf == <<105, 115, 80, 114, 111, 116, 111, 116, 121, 112, 101, 79, 102>>
\* "propertyIsEnumerable"
ProtoPropertyIsEnumerable == <<112, 114, 111, 112, 101, 114, 116, 121, 73, 115, 69, 110, 117, 109, 101, 114, 97, 98, 108, 101>>
\* "toLocaleString"
ProtoToLocaleString == <<116, 111, 76, 111, 99, 97, 108, 101, 83, 116, 114, 105, 110, 103>>
\* "__proto__"
ProtoProto == <<95, 95, 112, 114, 111, 116, 111, 95, 95>>

\* The keys every object literal {} inherits: groups[key] is truthy for them
\* although the key was never assigned.
InheritedKeys ==
    {ProtoConstructor, ProtoToString, ProtoValueOf, ProtoHasOwnProperty,
     ProtoIsPrototypeOf, ProtoPropertyIsEnumerable, ProtoToLocaleString, ProtoProto}

\* What a property read of the grouping object yields: the array assigned to
\* the key, undefined, or an inherited property, an object that is no array.
ArrayOf(messages) == [kind |-> "array", value |-> messages]
NoArray == [kind |-> "undefined", value |-> <<>>]
Inherited == [kind |-> "inherited", value |-> <<>>]

(***************************************************************************)
(* sanitizeString                                                          *)
(***************************************************************************)
\* The code units the second replace removes: [\x00-\x08\x0B\x0C\x0E-\x1F].
RemovedControls == (0..8) \cup {11, 12} \cup (14..31)

\* The second replace without its g flag: only the first match is removed.
RECURSIVE removeControlsFirstOnly(_)
removeControlsFirstOnly(s) ==
    IF s = <<>> THEN <<>>
    ELSE IF Head(s) \in RemovedControls THEN Tail(s)
    ELSE <<Head(s)>> \o removeControlsFirstOnly(Tail(s))

RECURSIVE removeControls(_)
removeControls(s) ==
    IF s = <<>> THEN <<>>
    ELSE IF Head(s) \in RemovedControls THEN removeControls(Tail(s))
    ELSE <<Head(s)>> \o removeControls(Tail(s))

\* The first replace: every code unit outside \x00-\xFF becomes a space.
replaceNonLatin1(s) == [i \in 1..Len(s) |-> IF s[i] > 255 THEN 32 ELSE s[i]]

sanitizeString(str) ==
    IF ~Truthy(str) THEN <<>> ELSE removeControls(replaceNonLatin1(str))

(***************************************************************************)
(* The Session Grouper: the reduce over chatData and the base records.     *)
(***************************************************************************)
\* groups[key] as the reduce reads it.
GroupLookup(groups, key) ==
    IF \E i \in 1..Len(groups) : groups[i][1] = key THEN ArrayOf(Get(groups, key))
    ELSE IF key \in InheritedKeys THEN Inherited
    ELSE NoArray

\* One step of the reduce: [threw, groups].  Pushing to an inherited property
\* raises a TypeError, which leaves the reduce.
groupStep(acc, message) ==
    LET sessionId == Get(message, KeySessionId)
        found == GroupLookup(acc.groups, sessionId)
    IN  IF acc.threw THEN acc
        ELSE IF found.kind = "inherited" THEN [threw |-> TRUE, groups |-> acc.groups]
        ELSE IF found.kind = "undefined"
        THEN [threw |-> FALSE, groups |-> Put(acc.groups, sessionId, <<message>>)]
        ELSE [threw |-> FALSE,
              groups |-> Put(acc.groups, sessionId, Append(found.value, message))]

RECURSIVE groupReduce(_, _)
groupReduce(acc, messages) ==
    IF messages = <<>> THEN acc
    ELSE groupReduce(groupStep(acc, Head(messages)), Tail(messages))

\* chatData.reduce(..., {})
groupBySession(messages) ==
    groupReduce([threw |-> FALSE, groups |-> <<>>], messages)

\* dates[dates.length - 1] in the place of dates[0]: the date of the last message.
startDateOfLast(sessionMessages) ==
    IF Len(sessionMessages) > 0
    THEN Get(sessionMessages[Len(sessionMessages)], KeyMessageDate) ELSE <<>>

\* dates.length > 0 ? dates[0] : ''
startDateOf(sessionMessages) ==
    IF Len(sessionMessages) > 0 THEN Get(sessionMessages[1], KeyMessageDate) ELSE <<>>

\* The base record of one session.
baseResult(groups, sessionId) ==
    << <<KeySessionId, sanitizeString(sessionId)>>,
       <<KeyStartDate, sanitizeString(startDateOf(Get(groups, sessionId)))>> >>

\* Object.keys(sessionGroups).map(...)
baseResults(groups) ==
    LET keys == ObjectKeys(groups)
    IN  [i \in 1..Len(keys) |-> baseResult(groups, keys[i])]

(***************************************************************************)
(* The Direct-Extraction Resolver.                                         *)
(***************************************************************************)
isColumnExtractionQuery(query) ==
    LET description == IF Truthy(query.queryDescription)
                       THEN toLowerCase(query.queryDescription) ELSE <<>>
        name == IF Truthy(query.queryName) THEN toLowerCase(query.queryName) ELSE <<>>
    IN  \/ includes(description, PhraseExtractColumn)
        \/ includes(description, PhraseGetColumn)
        \/ includes(description, PhrasePullColumn)
        \/ includes(name, PhraseParticipantIdentifier)
        \/ includes(description, PhraseParticipantIdentifier)

IsQuote(c) == c \in {34, 39}

\* The first match of /['"]([^'"]+)['"]/: the leftmost quote that is followed by
\* at least one character that is no quote and then by a quote.
quotedMatches(s) ==
    {i \in 1..Len(s) :
        /\ IsQuote(s[i])
        /\ i + 1 <= Len(s)
        /\ ~IsQuote(s[i + 1])
        /\ \E j \in (i + 2)..Len(s) : IsQuote(s[j])}

firstQuoted(s) ==
    LET i == CHOOSE x \in quotedMatches(s) : \A y \in quotedMatches(s) : x <= y
        j == CHOOSE x \in (i + 2)..Len(s) :
                /\ IsQuote(s[x])
                /\ \A y \in (i + 2)..(x - 1) : ~IsQuote(s[y])
    IN  SubSeq(s, i + 1, j - 1)

extractColumnName(query) ==
    IF ~Truthy(query.queryDescription) THEN <<>>
    ELSE IF quotedMatches(query.queryDescription) # {}
    THEN toLowerCase(firstQuoted(query.queryDescription))
    ELSE IF \/ includes(IF Truthy(query.queryName)
                        THEN toLowerCase(query.queryName) ELSE <<>>,
                        PhraseParticipantIdentifier)
            \/ includes(toLowerCase(query.queryDescription), PhraseParticipantIdentifier)
    THEN PhraseParticipantIdentifier
    ELSE <<>>

\* message[key] && message[key].trim() !== ''
nonEmptyField(message, key) ==
    Truthy(Get(message, key)) /\ trim(Get(message, key)) # <<>>

\* The first message, in order, whose field is non-empty; 0 when there is none.
firstNonEmpty(messages, key) ==
    IF \E i \in 1..Len(messages) : nonEmptyField(messages[i], key)
    THEN CHOOSE i \in 1..Len(messages) :
            /\ nonEmptyField(messages[i], key)
            /\ \A j \in 1..(i - 1) : ~nonEmptyField(messages[j], key)
    ELSE 0

\* Object.keys(firstMessage).find(k => k.toLowerCase() === columnName.toLowerCase())
matchingKeyOf(firstMessage, columnName) ==
    LET keys == ObjectKeys(firstMessage)
        hits == {i \in 1..Len(keys) : toLowerCase(keys[i]) = toLowerCase(columnName)}
    IN  IF hits = {} THEN Undefined
        ELSE keys[CHOOSE i \in hits : \A j \in hits : i <= j]

\* tryDirectColumnExtraction on an array of messages: [matched, key, index], the
\* field the answer is read from and the message it is read in.
directMatch(columnName, messages) ==
    LET none == [matched |-> FALSE, key |-> Undefined, index |-> 0]
        matchingKey == IF Len(messages) = 0 THEN Undefined
                       ELSE matchingKeyOf(messages[1], columnName)
    IN  IF Len(messages) = 0 THEN none
        ELSE IF Truthy(matchingKey) /\ firstNonEmpty(messages, matchingKey) # 0
        THEN [matched |-> TRUE, key |-> matchingKey,
              index |-> firstNonEmpty(messages, matchingKey)]
        ELSE IF columnName = PhraseParticipantIdentifier
                /\ firstNonEmpty(messages, KeyParticipantIdentifier) # 0
        THEN [matched |-> TRUE, key |-> KeyParticipantIdentifier,
              index |-> firstNonEmpty(messages, KeyParticipantIdentifier)]
        ELSE none

\* The matched value stored as it is, without sanitizeString.
directValueRaw(columnName, messages) ==
    LET m == directMatch(columnName, messages)
    IN  Get(messages[m.index], m.key)

\* The value tryDirectColumnExtraction stores on a match.
directValue(columnName, messages) ==
    LET m == directMatch(columnName, messages)
    IN  sanitizeString(Get(messages[m.index], m.key))

(***************************************************************************)
(* The Completion Client: the outcome of callOpenAIAPI for a response of   *)
(* the service, and handleQueryError.                                      *)
(***************************************************************************)
\* A response: transport (fetch rejected), status, message (the body's
\* error.message, undefined when the body has none or cannot be parsed) and
\* content (choices[0].message.content, undefined when there is no choice).
responseOk(response) == response.status \in 200..299

\* [threw, value]: the answer returned, or the message of the Error thrown.
callOpenAIAPI(response) ==
    LET errorMessage == IF Truthy(response.message) THEN response.message
                        ELSE MsgCallFailedPrefix \o decimal(response.status)
    IN  IF response.transport THEN [threw |-> TRUE, value |-> MsgFailedToFetch]
        ELSE IF ~responseOk(response)
        THEN IF response.status = 429
             THEN [threw |-> TRUE,
                   value |-> MsgRateLimitPrefix \o sanitizeString(errorMessage)]
             ELSE IF response.status \in {503, 504}
             THEN [threw |-> TRUE,
                   value |-> MsgUnavailablePrefix \o sanitizeString(errorMessage)]
             ELSE [threw |-> TRUE, value |-> sanitizeString(errorMessage)]
        ELSE IF response.content = Undefined
        THEN [threw |-> TRUE, value |-> MsgReadMessage]
        ELSE [threw |-> FALSE, value |-> sanitizeString(trim(response.content))]

\* error.message.includes("rate limit")
isRateLimitError(message) == includes(message, PhraseRateLimit)

\* The tests of handleQueryError in the other order: "service unavailable" first.
errorPlaceholderUnavailableFirst(message) ==
    IF includes(message, PhraseServiceUnavailable) THEN PlaceholderUnavailable
    ELSE IF isRateLimitError(message) THEN PlaceholderRateLimit
    ELSE PlaceholderErrorPrefix \o sanitizeString(substring0(message, maxErrorChars))

\* The placeholder handleQueryError stores for an Error with that message.
errorPlaceholder(message) ==
    IF isRateLimitError(message) THEN PlaceholderRateLimit
    ELSE IF includes(message, PhraseServiceUnavailable) THEN PlaceholderUnavailable
    ELSE PlaceholderErrorPrefix \o sanitizeString(substring0(message, maxErrorChars))

\* A handler that logs the error and stores nothing.
handleQueryErrorLogOnly(message, sessionResult, query) == sessionResult

handleQueryError(message, sessionResult, query) ==
    Put(sessionResult, query.queryName, errorPlaceholder(message))

(***************************************************************************)
(* The state of one run of processData.                                    *)
(*                                                                         *)
(* chatData, queryData, apiKey: the inputs.  service: the responses the    *)
(* completion service may give.  text and sanitized: an argument of        *)
(* sanitizeString and the results of applying it to the argument, then to  *)
(* its own result.  pc: where processData is (idle, launch:   *)
(* inside queryData.map, await: at Promise.all, done).  task[k]: the query *)
(* task of the current session for queryData[k]; its pc is new, wait (in   *)
(* the slot loop), pace, cool, call, rlcool or done; timer is what is left *)
(* of the delay it awaits (-1: none) and waited is Date.now() minus its    *)
(* queueStartTime.  processedResults holds indices into sessionResults:    *)
(* the list returned holds the same objects.  sessionId is the constant of *)
(* the loop body (line 69).  setIsProcessingLog, calls, outcome, received   *)
(* (the response each call was given) and failures record what happened;   *)
(* the program does not read them.                                         *)
(***************************************************************************)
VARIABLES chatData, queryData, apiKey, service, text,
          pc, isProcessing, setIsProcessingLog, toasts, returned,
          sessionResults, processedResults,
          cur, sessionId, launch, task,
          activeRequests, consecutiveApiCalls,
          calls, outcome, received, failures, sanitized

vars == <<chatData, queryData, apiKey, service, text,
          pc, isProcessing, setIsProcessingLog, toasts, returned,
          sessionResults, processedResults,
          cur, sessionId, launch, task,
          activeRequests, consecutiveApiCalls,
          calls, outcome, received, failures, sanitized>>

inputs == <<chatData, queryData, apiKey, service, text>>

NoTimer == -1
NewTask == [pc |-> "new", timer |-> NoTimer, waited |-> 0]
Settled == [pc |-> "done", timer |-> NoTimer, waited |-> 0]
\* A delay whose timer never fires.
AwaitingForever(p, ms) == [pc |-> p, timer |-> NoTimer, waited |-> 0]

Awaiting(p, ms) == [pc |-> p, timer |-> ms, waited |-> 0]

NumQueries == Len(queryData)
NumSessions == Len(sessionResults)

\* The state before processData is called, the inputs being given.
Idle ==
    /\ pc = "idle"
    /\ isProcessing = FALSE
    /\ setIsProcessingLog = <<>>
    /\ toasts = [error |-> 0, rateLimit |-> 0, success |-> 0]
    /\ returned = "pending"
    /\ sessionResults = <<>>
    /\ processedResults = <<>>
    /\ cur = 0
    /\ sessionId = Undefined
    /\ launch = 0
    /\ task = <<>>
    /\ activeRequests = 0
    /\ consecutiveApiCalls = 0
    /\ calls = <<>>
    /\ outcome = <<>>
    /\ received = <<>>
    /\ failures = 0
    /\ sanitized = <<>>

\* The grouping object (lines 36-43).  It is built once and never assigned to
\* again, so it is a function of chatData.
sessionGroups == groupBySession(chatData).groups

\* const sessionMessages = sessionGroups[sessionId] (line 70)
sessionMessages == GroupLookup(sessionGroups, sessionId)

(***************************************************************************)
(* processData up to the first session (lines 24-70).                      *)
(***************************************************************************)
\* The validation without its test of the credential.
inputsMissingKeyUnchecked == chatData = <<>> \/ queryData = <<>>

inputsMissing == chatData = <<>> \/ queryData = <<>> \/ ~Truthy(apiKey)

\* No response: the call of a query has not been answered.
NoResponse ==
    [transport |-> FALSE, status |-> 0, message |-> Undefined, content |-> Undefined]

\* The finally block without its statement: the flag keeps the value last set.
releaseProcessingForgotten(log) ==
    /\ isProcessing' = log[Len(log)]
    /\ setIsProcessingLog' = log

\* finally { setIsProcessing(false) } (lines 147-149), log being the values set
\* so far.
releaseProcessing(log) ==
    /\ isProcessing' = FALSE
    /\ setIsProcessingLog' = Append(log, FALSE)

Begin ==
    /\ pc = "idle"
    /\ IF inputsMissing
       THEN /\ toasts' = [toasts EXCEPT !.error = @ + 1]
            /\ returned' = "null"
            /\ pc' = "done"
            /\ UNCHANGED <<isProcessing, setIsProcessingLog, sessionResults, cur,
                           sessionId, launch, task, calls, outcome, received>>
       ELSE LET grouped == groupBySession(chatData)
                results == baseResults(grouped.groups)
            IN  IF grouped.threw
                THEN \* the outer catch and finally
                     /\ toasts' = [toasts EXCEPT !.error = @ + 1]
                     /\ returned' = "null"
                     /\ pc' = "done"
                     /\ releaseProcessing(Append(setIsProcessingLog, TRUE))
                     /\ UNCHANGED <<sessionResults, cur, sessionId, launch, task,
                                    calls, outcome, received>>
                ELSE /\ isProcessing' = TRUE
                     /\ setIsProcessingLog' = Append(setIsProcessingLog, TRUE)
                     /\ sessionResults' = results
                     /\ cur' = 1
                     /\ sessionId' = Get(results[1], KeySessionId)
                     /\ launch' = 1
                     /\ task' = [k \in 1..NumQueries |-> NewTask]
                     /\ calls' = [s \in 1..Len(results) |-> [k \in 1..NumQueries |-> 0]]
                     /\ outcome' = [s \in 1..Len(results) |->
                                        [k \in 1..NumQueries |-> "none"]]
                     /\ received' = [s \in 1..Len(results) |->
                                         [k \in 1..NumQueries |-> NoResponse]]
                     /\ pc' = "launch"
                     /\ UNCHANGED <<toasts, returned>>
    /\ UNCHANGED <<inputs, sanitized, processedResults, activeRequests, consecutiveApiCalls,
                   failures>>

(***************************************************************************)
(* A query task (lines 73-131).                                            *)
(***************************************************************************)
\* The loop test with > in the place of >=.
slotsFullOffByOne == activeRequests > maxConcurrentRequests

\* while (activeRequests >= maxConcurrentRequests)
slotsFull == activeRequests >= maxConcurrentRequests

\* The window test without the window: the task gives up at its first poll.
waitedTooLongAtOnce(k) == task[k].waited > 0

\* Date.now() - queueStartTime > maxQueueWaitTime
waitedTooLong(k) == task[k].waited > maxQueueWaitTime

\* baseDelayMs * Math.min(consecutiveApiCalls, 3)
currentDelay ==
    baseDelayMs * (IF consecutiveApiCalls < maxDelayFactor
                   THEN consecutiveApiCalls ELSE maxDelayFactor)

\* The try block up to its first await (lines 86-102): the task returns with an
\* extracted value (direct), raises a TypeError (threw), or awaits its pacing
\* delay (pace).
tryBody(k) ==
    LET query == queryData[k]
        columnName == extractColumnName(query)
        resolves == isColumnExtractionQuery(query) /\ Truthy(columnName)
    IN  IF resolves /\ sessionMessages.kind = "undefined"
        THEN [kind |-> "threw", value |-> MsgReadIndex0]
        ELSE IF /\ resolves
                /\ sessionMessages.kind = "array"
                /\ directMatch(columnName, sessionMessages.value).matched
        THEN [kind |-> "direct",
              value |-> directValue(columnName, sessionMessages.value)]
        ELSE IF sessionMessages.kind = "undefined"
        THEN [kind |-> "threw", value |-> MsgReadSlice]
        ELSE IF sessionMessages.kind = "inherited"
        THEN [kind |-> "threw", value |-> MsgSliceNotFunction]
        ELSE [kind |-> "pace", value |-> currentDelay]

\* The catch block (lines 120-127) for an Error with that message: the record
\* with the placeholder, the toasts, and whether the task awaits the cooldown.
caught(k, message) ==
    [results |-> [sessionResults EXCEPT
                    ![cur] = handleQueryError(message, @, queryData[k])],
     toasts |-> IF isRateLimitError(message)
                THEN [toasts EXCEPT !.rateLimit = @ + 1] ELSE toasts,
     cooldown |-> isRateLimitError(message)]

\* The finally block without its statement: the slot is kept.
releaseSlotForgotten(n) == n

\* finally { activeRequests-- } (lines 128-130), n being the counter's value.
releaseSlot(n) == n - 1

\* The task leaves the slot loop: activeRequests++ and the try block up to its
\* first await, with the catch and finally blocks when it ends there.
Admit(k) ==
    \E body \in {tryBody(k)} :
        /\ outcome' = [outcome EXCEPT ![cur][k] =
                         IF body.kind = "pace" THEN @ ELSE body.kind]
        /\ IF body.kind = "direct"
           THEN /\ sessionResults' = [sessionResults EXCEPT
                      ![cur] = Put(@, queryData[k].queryName, body.value)]
                /\ task' = [task EXCEPT ![k] = Settled]
                /\ activeRequests' = releaseSlot(activeRequests + 1)
                /\ UNCHANGED toasts
           ELSE IF body.kind = "threw"
           THEN \E c \in {caught(k, body.value)} :
                /\ sessionResults' = c.results
                /\ toasts' = c.toasts
                /\ task' = [task EXCEPT ![k] =
                              IF c.cooldown THEN Awaiting("rlcool", rateLimitDelayMs)
                              ELSE Settled]
                /\ activeRequests' = IF c.cooldown THEN activeRequests + 1
                                     ELSE releaseSlot(activeRequests + 1)
           ELSE /\ task' = [task EXCEPT ![k] = Awaiting("pace", body.value)]
                /\ activeRequests' = activeRequests + 1
                /\ UNCHANGED <<sessionResults, toasts>>

\* queryData.map calls the task of queryData[k]: it runs to its first await.
TaskStart(k) ==
    /\ pc = "launch"
    /\ launch = k
    /\ k <= NumQueries
    /\ IF slotsFull
       THEN /\ task' = [task EXCEPT ![k] = Awaiting("wait", pollDelayMs)]
            /\ UNCHANGED <<activeRequests, sessionResults, toasts, outcome>>
       ELSE Admit(k)
    /\ launch' = k + 1
    /\ pc' = IF k = NumQueries THEN "await" ELSE "launch"
    /\ UNCHANGED <<inputs, sanitized, isProcessing, setIsProcessingLog, returned,
                   processedResults, cur, sessionId, consecutiveApiCalls,
                   calls, failures, received>>

\* The delay(100) of a waiting task is over: the loop tests again.
PollWake(k) ==
    /\ pc = "await"
    /\ task[k].pc = "wait"
    /\ task[k].timer = 0
    /\ IF slotsFull
       THEN IF waitedTooLong(k)
            THEN \* return: the query is skipped
                 /\ task' = [task EXCEPT ![k] = Settled]
                 /\ outcome' = [outcome EXCEPT ![cur][k] = "skipped"]
                 /\ UNCHANGED <<activeRequests, sessionResults, toasts>>
            ELSE /\ task' = [task EXCEPT ![k].timer = pollDelayMs]
                 /\ UNCHANGED <<activeRequests, sessionResults, toasts, outcome>>
       ELSE Admit(k)
    /\ UNCHANGED <<inputs, sanitized, pc, isProcessing, setIsProcessingLog, returned,
                   processedResults, cur, sessionId, launch,
                   consecutiveApiCalls, calls, failures, received>>

\* callOpenAIAPI is entered: the request is sent.
issueCall(k) ==
    /\ task' = [task EXCEPT ![k] = Awaiting("call", NoTimer)]
    /\ calls' = [calls EXCEPT ![cur][k] = @ + 1]

\* The pacing delay is over (lines 103-117).
PaceWake(k) ==
    /\ pc = "await"
    /\ task[k].pc = "pace"
    /\ task[k].timer = 0
    /\ IF consecutiveApiCalls + 1 > cooldownThreshold
       THEN /\ consecutiveApiCalls' = consecutiveApiCalls + 1
            /\ task' = [task EXCEPT ![k] = Awaiting("cool", cooldownDelayMs)]
            /\ UNCHANGED calls
       ELSE /\ consecutiveApiCalls' = consecutiveApiCalls + 1
            /\ issueCall(k)
    /\ UNCHANGED <<inputs, sanitized, pc, isProcessing, setIsProcessingLog, toasts, returned,
                   sessionResults, processedResults, cur,
                   sessionId, launch, activeRequests, outcome, failures, received>>

\* The cooldown without its reset of the counter.
CoolWakeNoReset(k) ==
    /\ pc = "await"
    /\ task[k].pc = "cool"
    /\ task[k].timer = 0
    /\ issueCall(k)
    /\ UNCHANGED <<inputs, sanitized, pc, isProcessing, setIsProcessingLog, toasts, returned,
                   sessionResults, processedResults, cur,
                   sessionId, launch, activeRequests, outcome, failures, received,
                   consecutiveApiCalls>>

\* The 1500 ms cooldown is over (lines 108-117).
CoolWake(k) ==
    /\ pc = "await"
    /\ task[k].pc = "cool"
    /\ task[k].timer = 0
    /\ consecutiveApiCalls' = 0
    /\ issueCall(k)
    /\ UNCHANGED <<inputs, sanitized, pc, isProcessing, setIsProcessingLog, toasts, returned,
                   sessionResults, processedResults, cur,
                   sessionId, launch, activeRequests, outcome, failures, received>>

\* The service answers the call of task k with response r (lines 119-130).
Respond(k, r) ==
    /\ pc = "await"
    /\ task[k].pc = "call"
    /\ \E res \in {callOpenAIAPI(r)} :
        /\ res.threw => failures < MaxFailures
        /\ failures' = IF res.threw THEN failures + 1 ELSE failures
        /\ outcome' = [outcome EXCEPT ![cur][k] =
                         IF res.threw THEN "failed" ELSE "answered"]
        /\ received' = [received EXCEPT ![cur][k] = r]
        /\ IF res.threw
           THEN \E c \in {caught(k, res.value)} :
                /\ sessionResults' = c.results
                /\ toasts' = c.toasts
                /\ task' = [task EXCEPT ![k] =
                              IF c.cooldown THEN Awaiting("rlcool", rateLimitDelayMs)
                              ELSE Settled]
                /\ activeRequests' = IF c.cooldown THEN activeRequests
                                     ELSE releaseSlot(activeRequests)
           ELSE /\ sessionResults' = [sessionResults EXCEPT
                      ![cur] = Put(@, queryData[k].queryName, res.value)]
                /\ task' = [task EXCEPT ![k] = Settled]
                /\ activeRequests' = releaseSlot(activeRequests)
                /\ UNCHANGED toasts
    /\ UNCHANGED <<inputs, sanitized, pc, isProcessing, setIsProcessingLog, returned,
                   processedResults, cur, sessionId, launch,
                   consecutiveApiCalls, calls>>

\* The cooldown followed by a second attempt: the call is issued again.
RateLimitWakeRetry(k) ==
    /\ pc = "await"
    /\ task[k].pc = "rlcool"
    /\ task[k].timer = 0
    /\ consecutiveApiCalls' = 0
    /\ issueCall(k)
    /\ UNCHANGED <<inputs, sanitized, pc, isProcessing, setIsProcessingLog, toasts, returned,
                   sessionResults, processedResults, cur,
                   sessionId, launch, activeRequests, outcome, failures, received>>

\* The 6000 ms cooldown after a rate-limit error is over (lines 126-130).
RateLimitWake(k) ==
    /\ pc = "await"
    /\ task[k].pc = "rlcool"
    /\ task[k].timer = 0
    /\ consecutiveApiCalls' = 0
    /\ activeRequests' = releaseSlot(activeRequests)
    /\ task' = [task EXCEPT ![k] = Settled]
    /\ UNCHANGED <<inputs, sanitized, pc, isProcessing, setIsProcessingLog, toasts, returned,
                   sessionResults, processedResults, cur,
                   sessionId, launch, calls, outcome, failures, received>>

\* Time passes until the next timer is due.  A due timer runs first.
running == {k \in 1..Len(task) : task[k].timer > 0}

Tick ==
    /\ pc = "await"
    /\ running # {}
    /\ \A k \in 1..Len(task) : task[k].timer # 0
    /\ LET d == CHOOSE x \in {task[k].timer : k \in running} :
                    \A k \in running : x <= task[k].timer
       IN  task' = [k \in 1..Len(task) |->
                      IF k \in running
                      THEN [task[k] EXCEPT
                              !.timer = @ - d,
                              !.waited = IF task[k].pc = "wait" THEN @ + d ELSE @]
                      ELSE task[k]]
    /\ UNCHANGED <<inputs, sanitized, pc, isProcessing, setIsProcessingLog, toasts, returned,
                   sessionResults, processedResults, cur,
                   sessionId, launch, activeRequests, consecutiveApiCalls,
                   calls, outcome, failures, received>>

(***************************************************************************)
(* Promise.all resolves: the record is pushed, and the loop turns to the   *)
(* next session or processData returns (lines 135-148).                    *)
(***************************************************************************)
\* Promise.all not awaited: the loop goes on once the tasks have been called.
allDispatched == \A k \in 1..Len(task) : task[k].pc # "new"

\* Promise.race in the place of Promise.all: one settled task is enough.
anySettled == \E k \in 1..Len(task) : task[k].pc = "done"

allSettled == \A k \in 1..Len(task) : task[k].pc = "done"

EndSession ==
    /\ pc = "await"
    /\ allSettled
    /\ processedResults' = Append(processedResults, cur)
    /\ IF cur < NumSessions
       THEN /\ cur' = cur + 1
            /\ sessionId' = Get(sessionResults[cur + 1], KeySessionId)
            /\ launch' = 1
            /\ task' = [k \in 1..NumQueries |-> NewTask]
            /\ pc' = "launch"
            /\ UNCHANGED <<isProcessing, setIsProcessingLog, toasts, returned>>
       ELSE /\ toasts' = [toasts EXCEPT !.success = @ + 1]
            /\ returned' = "list"
            /\ releaseProcessing(setIsProcessingLog)
            /\ pc' = "done"
            /\ UNCHANGED <<cur, sessionId, launch, task>>
    /\ UNCHANGED <<inputs, sanitized, sessionResults, activeRequests,
                   consecutiveApiCalls, calls, outcome, failures, received>>

(***************************************************************************)
(* Inputs: messages as ingestion builds them (the five required fields in  *)
(* order, then the extra columns that have a value), queries, responses.   *)
(***************************************************************************)
\* "user", "hi": a message type and a message content
TextUser == <<117, 115, 101, 114>>
TextHi == <<104, 105>>

Message(id, date, participant) ==
    << <<KeyMessageType, TextUser>>,
       <<KeyMessageContent, TextHi>>,
       <<KeySessionId, id>>,
       <<KeyMessageDate, date>>,
       <<KeyParticipantIdentifier, participant>> >>

Query(name, description) == [queryName |-> name, queryDescription |-> description]

\* "extract column "participant identifier""
QDescPid == <<101, 120, 116, 114, 97, 99, 116, 32, 99, 111, 108, 117, 109, 110, 32, 34, 112, 97, 114, 116, 105, 99, 105, 112, 97, 110, 116, 32, 105, 100, 101, 110, 116, 105, 102, 105, 101, 114, 34>>
\* "extract column 'City'"
QDescCity == <<101, 120, 116, 114, 97, 99, 116, 32, 99, 111, 108, 117, 109, 110, 32, 39, 67, 105, 116, 121, 39>>
\* "get column "messageDate""
QDescDate == <<103, 101, 116, 32, 99, 111, 108, 117, 109, 110, 32, 34, 109, 101, 115, 115, 97, 103, 101, 68, 97, 116, 101, 34>>
\* "mood of the user"
QDescFree == <<109, 111, 111, 100, 32, 111, 102, 32, 116, 104, 101, 32, 117, 115, 101, 114>>

\* Query names "q1", "q2", "q3", "who"
NameQ1 == <<113, 49>>
NameQ2 == <<113, 50>>
NameQ3 == <<113, 51>>
NameWho == <<119, 104, 111>>

\* Session identifiers "a", "b"; dates "05", "03"; participants "p1", "p2"; a key "sk"
IdA == <<97>>
IdB == <<98>>
Date05 == <<48, 53>>
Date03 == <<48, 51>>
Pid1 == <<112, 49>>
Pid2 == <<112, 50>>
KeySk == <<115, 107>>

\* Session identifiers sanitizeString changes ("a" followed by U+0001, and the
\* one character U+7528), two that are array indices ("10", "2"), and a date
\* with a character outside Latin-1 ("3" followed by U+6708).
IdACtl == <<97, 1>>
IdWide == <<29992>>
Id10 == <<49, 48>>
Id2 == <<50>>
DateWide == <<51, 26376>>

\* Cities "Rome", "Oslo"; query names "q5", "when", "city"
CityRome == <<82, 111, 109, 101>>
CityOslo == <<79, 115, 108, 111>>
NameQ5 == <<113, 53>>
NameWhen == <<119, 104, 101, 110>>
NameCity == <<99, 105, 116, 121>>

\* A message of a file with a City column: ingestion adds the field only when
\* the cell has a value (csvParser.ts lines 133-139).
MessageWithCity(id, date, participant, city) ==
    IF city = Undefined THEN Message(id, date, participant)
    ELSE Append(Message(id, date, participant), <<KeyCity, city>>)

\* The sequences over S of length at most n.
SeqsUpTo(S, n) == UNION {[1..m -> S] : m \in 0..n}

\* The responses of the completion service.
HttpResponse(status, message, content) ==
    [transport |-> FALSE, status |-> status, message |-> message, content |-> content]

TransportFailure ==
    [transport |-> TRUE, status |-> 0, message |-> Undefined, content |-> Undefined]

\* "42", an answer; "bad key", an error message of the service
Text42 == <<52, 50>>
TextBadKey == <<98, 97, 100, 32, 107, 101, 121>>

Answer42 == HttpResponse(200, Undefined, Text42)

\* Error messages in the body of a failing response:
\* "service unavailable now" and "rate limit reached"
TextUnavailableNow == <<115, 101, 114, 118, 105, 99, 101, 32, 117, 110, 97, 118, 97, 105, 108, 97, 98, 108, 101, 32, 110, 111, 119>>
TextRateLimitReached == <<114, 97, 116, 101, 32, 108, 105, 109, 105, 116, 32, 114, 101, 97, 99, 104, 101, 100>>

(***************************************************************************)
(* The scheduler's specification: one session and five queries, of which   *)
(* four go to the completion service and one the resolver can answer, so   *)
(* two tasks wait for one of the three slots; or a run on inputs of which  *)
(* one is missing.                                                         *)
(***************************************************************************)
\* Its first message has no participant.
SchedulerChat == << Message(IdA, Date05, <<>>), Message(IdA, Date03, Pid1) >>

SchedulerQueries ==
    << Query(NameQ1, QDescFree), Query(NameQ2, QDescFree), Query(NameQ3, QDescFree),
       Query(NameWho, QDescPid), Query(NameQ5, QDescFree) >>

SchedulerService == {Answer42, HttpResponse(503, Undefined, Undefined)}

Init ==
    /\ chatData \in {SchedulerChat, <<>>}
    /\ queryData \in {SchedulerQueries, <<>>}
    /\ apiKey \in {KeySk, <<>>}
    /\ service = SchedulerService
    /\ text = <<>>
    /\ Idle

Next ==
    \/ Begin
    \/ \E k \in 1..NumQueries : TaskStart(k)
    \/ \E k \in 1..Len(task) : PollWake(k)
    \/ \E k \in 1..Len(task) : PaceWake(k)
    \/ \E k \in 1..Len(task), r \in service : Respond(k, r)
    \/ Tick
    \/ EndSession

Spec == Init /\ [][Next]_vars

(***************************************************************************)
(* The grouper's specification: every message list of at most MaxMsgs      *)
(* messages over six session identifiers and two dates, and one query the  *)
(* resolver answers from messageDate.  No task reaches an await, so the    *)
(* timers and the service take no step.                                    *)
(***************************************************************************)
GroupIds == {IdA, IdACtl, IdWide, Id10, Id2, ProtoValueOf}
GroupDates == {Date05, DateWide}
GroupMessages == {Message(id, date, Pid1) : id \in GroupIds, date \in GroupDates}
GroupQueries == << Query(NameWhen, QDescDate) >>

InitGroup ==
    /\ chatData \in SeqsUpTo(GroupMessages, MaxMsgs)
    /\ queryData = GroupQueries
    /\ apiKey = KeySk
    /\ service = {}
    /\ text = <<>>
    /\ Idle

NextGroup ==
    \/ Begin
    \/ \E k \in 1..NumQueries : TaskStart(k)
    \/ EndSession

SpecGroup == InitGroup /\ [][NextGroup]_vars

(***************************************************************************)
(* The resolver's specification: one session of at most MaxMsgs messages   *)
(* that may or may not carry a participant and a city, and one query that  *)
(* asks for the participant identifier or for the City column.  A single   *)
(* task never waits for a slot or for a pacing delay.                      *)
(***************************************************************************)
ExtractMessages ==
    {MessageWithCity(IdA, Date05, p, c) :
        p \in {<<>>, Pid1, Pid2}, c \in {Undefined, CityRome, CityOslo}}

ExtractQueries == { <<Query(NameWho, QDescPid)>>, <<Query(NameCity, QDescCity)>> }

ExtractService == {Answer42, HttpResponse(500, TextBadKey, Undefined)}

InitExtract ==
    /\ chatData \in SeqsUpTo(ExtractMessages, MaxMsgs)
    /\ queryData \in ExtractQueries
    /\ apiKey = KeySk
    /\ service = ExtractService
    /\ text = <<>>
    /\ Idle

NextExtract ==
    \/ Begin
    \/ \E k \in 1..NumQueries : TaskStart(k)
    \/ \E k \in 1..Len(task) : PaceWake(k)
    \/ \E k \in 1..Len(task), r \in service : Respond(k, r)
    \/ EndSession

SpecExtract == InitExtract /\ [][NextExtract]_vars

(***************************************************************************)
(* The completion client's specification: two sessions and three queries   *)
(* for a service that may fail in every way callOpenAIAPI tells apart.     *)
(* Three tasks never wait for a slot; the sixth call of the run meets the  *)
(* 1500 ms cooldown.                                                       *)
(***************************************************************************)
ServiceChat == << Message(IdA, Date05, Pid1), Message(IdB, Date03, Pid2) >>

ServiceQueries ==
    << Query(NameQ1, QDescFree), Query(NameQ2, QDescFree), Query(NameQ3, QDescFree) >>

FailingService ==
    { Answer42,
      HttpResponse(429, Undefined, Undefined),
      HttpResponse(429, TextUnavailableNow, Undefined),
      HttpResponse(503, Undefined, Undefined),
      HttpResponse(503, TextRateLimitReached, Undefined),
      HttpResponse(504, Undefined, Undefined),
      HttpResponse(500, TextBadKey, Undefined),
      HttpResponse(200, Undefined, Undefined),
      TransportFailure }

InitService ==
    /\ chatData = ServiceChat
    /\ queryData = ServiceQueries
    /\ apiKey = KeySk
    /\ service = FailingService
    /\ text = <<>>
    /\ Idle

NextService ==
    \/ Begin
    \/ \E k \in 1..NumQueries : TaskStart(k)
    \/ \E k \in 1..Len(task) : PaceWake(k)
    \/ \E k \in 1..Len(task) : CoolWake(k)
    \/ \E k \in 1..Len(task), r \in service : Respond(k, r)
    \/ \E k \in 1..Len(task) : RateLimitWake(k)
    \/ Tick
    \/ EndSession

SpecService == InitService /\ [][NextService]_vars

(***************************************************************************)
(* The slots' specification: one session whose fourth query the resolver   *)
(* can answer, for a service that answers or rate-limits at any time.      *)
(***************************************************************************)
SlotQueries ==
    << Query(NameQ1, QDescFree), Query(NameQ2, QDescFree),
       Query(NameQ3, QDescFree), Query(NameWho, QDescPid) >>

CooldownService == {Answer42, HttpResponse(429, Undefined, Undefined)}

InitSlots ==
    /\ chatData = SchedulerChat
    /\ queryData = SlotQueries
    /\ apiKey = KeySk
    /\ service = CooldownService
    /\ text = <<>>
    /\ Idle

NextSlots ==
    \/ Begin
    \/ \E k \in 1..NumQueries : TaskStart(k)
    \/ \E k \in 1..Len(task) : PollWake(k)
    \/ \E k \in 1..Len(task) : PaceWake(k)
    \/ \E k \in 1..Len(task), r \in service : Respond(k, r)
    \/ \E k \in 1..Len(task) : RateLimitWake(k)
    \/ Tick
    \/ EndSession

SpecSlots == InitSlots /\ [][NextSlots]_vars

(***************************************************************************)
(* The run to its end: one session of one message and four queries for the *)
(* completion service, which answers or rate-limits at any time it likes.  *)
(* Once processData has been called, the event loop does not stop while a  *)
(* task can run, a timer is pending or a response can arrive.              *)
(***************************************************************************)
LiveChat == << Message(IdA, Date05, Pid1) >>

LiveQueries ==
    << Query(NameQ1, QDescFree), Query(NameQ2, QDescFree),
       Query(NameQ3, QDescFree), Query(NameQ5, QDescFree) >>

InitLive ==
    /\ chatData = LiveChat
    /\ queryData = LiveQueries
    /\ apiKey = KeySk
    /\ service = CooldownService
    /\ text = <<>>
    /\ Idle

EventLoop ==
    \/ Tick
    \/ EndSession
    \/ \E k \in 1..Len(task) : PaceWake(k)
    \/ \E k \in 1..Len(task) : RateLimitWake(k)
    \/ \E k \in 1..Len(task), r \in service : Respond(k, r)
    \/ \E k \in 1..NumQueries : TaskStart(k)
    \/ \E k \in 1..Len(task) : PollWake(k)

NextLive == Begin \/ EventLoop

SpecLive == InitLive /\ [][NextLive]_vars /\ WF_vars(EventLoop)

(***************************************************************************)
(* sanitizeString on its own: it is applied to a string, and then to its   *)
(* own result.  The code units are removed controls (x08, x0E), kept       *)
(* controls (tab, carriage return), printable ones (a, xFF) and one above  *)
(* xFF (u0100).                                                            *)
(***************************************************************************)
SanitizeUnits == {8, 9, 13, 14, 97, 255, 256}

InitSanitize ==
    /\ chatData = <<>>
    /\ queryData = <<>>
    /\ apiKey = <<>>
    /\ service = {}
    /\ text \in SeqsUpTo(SanitizeUnits, MaxLen)
    /\ Idle

Sanitize ==
    /\ pc = "idle"
    /\ Len(sanitized) < 2
    /\ sanitized' = Append(sanitized,
                           sanitizeString(IF sanitized = <<>> THEN text
                                          ELSE sanitized[Len(sanitized)]))
    /\ UNCHANGED <<inputs, pc, isProcessing, setIsProcessingLog, toasts, returned,
                   sessionResults, processedResults, cur, sessionId, launch, task,
                   activeRequests, consecutiveApiCalls, calls, outcome, received,
                   failures>>

NextSanitize == Sanitize

SpecSanitize == InitSanitize /\ [][NextSanitize]_vars

(***************************************************************************)
(* The sessions' specification: two sessions and four queries, the fourth  *)
(* one resolvable, for a service that answers at any time it likes.        *)
(***************************************************************************)
InitSessions ==
    /\ chatData = ServiceChat
    /\ queryData = SlotQueries
    /\ apiKey = KeySk
    /\ service = {Answer42}
    /\ text = <<>>
    /\ Idle

NextSessions ==
    \/ Begin
    \/ \E k \in 1..NumQueries : TaskStart(k)
    \/ \E k \in 1..Len(task) : PollWake(k)
    \/ \E k \in 1..Len(task) : PaceWake(k)
    \/ \E k \in 1..Len(task) : CoolWake(k)
    \/ \E k \in 1..Len(task), r \in service : Respond(k, r)
    \/ Tick
    \/ EndSession

SpecSessions == InitSessions /\ [][NextSessions]_vars

(***************************************************************************)
(* The pacing's specification: two sessions and four queries for the       *)
(* completion service, which answers at any time it likes, so that the     *)
(* counter of consecutive calls passes its threshold in the second         *)
(* session while several tasks are pacing.                                 *)
(***************************************************************************)
InitPacing ==
    /\ chatData = ServiceChat
    /\ queryData = LiveQueries
    /\ apiKey = KeySk
    /\ service = {Answer42}
    /\ text = <<>>
    /\ Idle

NextPacing ==
    \/ Begin
    \/ \E k \in 1..NumQueries : TaskStart(k)
    \/ \E k \in 1..Len(task) : PollWake(k)
    \/ \E k \in 1..Len(task) : PaceWake(k)
    \/ \E k \in 1..Len(task) : CoolWake(k)
    \/ \E k \in 1..Len(task), r \in service : Respond(k, r)
    \/ Tick
    \/ EndSession

SpecPacing == InitPacing /\ [][NextPacing]_vars

(***************************************************************************)
(* The stored values' specification: two sessions, the second one's        *)
(* identifier ending in a control character, a date and a participant with *)
(* characters sanitizeString changes, a resolvable and a free query, and a *)
(* service that answers with any short text or fails with it as message.   *)
(* The code units of the text are a removed control (x01), a space, "a"    *)
(* and one above xFF (u0100).                                              *)
(***************************************************************************)
\* "p", U+0100, U+0001: a participant identifier
PidWide == <<112, 256, 1>>

AnswerUnits == {1, 32, 97, 256}

AnswerChat == << Message(IdA, DateWide, PidWide), Message(IdACtl, Date03, Pid2) >>

AnswerQueries == << Query(NameWho, QDescPid), Query(NameQ1, QDescFree) >>

InitAnswer ==
    /\ chatData = AnswerChat
    /\ queryData = AnswerQueries
    /\ apiKey = KeySk
    /\ text \in SeqsUpTo(AnswerUnits, MaxLen)
    /\ service = {HttpResponse(200, Undefined, text), HttpResponse(500, text, Undefined)}
    /\ Idle

NextAnswer ==
    \/ Begin
    \/ \E k \in 1..NumQueries : TaskStart(k)
    \/ \E k \in 1..Len(task) : PaceWake(k)
    \/ \E k \in 1..Len(task), r \in service : Respond(k, r)
    \/ Tick
    \/ EndSession

SpecAnswer == InitAnswer /\ [][NextAnswer]_vars

(***************************************************************************)
(* What the claims speak of, read off the inputs and the state without the *)
(* grouping object.                                                        *)
(***************************************************************************)
\* The messages of chatData with that sessionId, in input order.
RECURSIVE messagesWith(_, _)
messagesWith(messages, id) ==
    IF messages = <<>> THEN <<>>
    ELSE IF Get(Head(messages), KeySessionId) = id
    THEN <<Head(messages)>> \o messagesWith(Tail(messages), id)
    ELSE messagesWith(Tail(messages), id)

\* The distinct sessionId values of chatData, in the order of first appearance.
RECURSIVE firstSeenFrom(_, _)
firstSeenFrom(messages, seen) ==
    IF messages = <<>> THEN <<>>
    ELSE IF Get(Head(messages), KeySessionId) \in seen
    THEN firstSeenFrom(Tail(messages), seen)
    ELSE <<Get(Head(messages), KeySessionId)>>
         \o firstSeenFrom(Tail(messages), seen \cup {Get(Head(messages), KeySessionId)})

firstSeen == firstSeenFrom(chatData, {})

\* The session the s-th record was built for (line 46), and its messages.
sessionOf(s) == ObjectKeys(sessionGroups)[s]
ownMessages(s) == messagesWith(chatData, sessionOf(s))

\* The s-th record, the records pushed so far, the answer stored for a query.
pushed == {processedResults[i] : i \in 1..Len(processedResults)}
answer(s, k) == Get(sessionResults[s], queryData[k].queryName)

\* The tasks that hold a slot, and those whose remote call is in flight.
holders == {k \in 1..Len(task) : task[k].pc \in {"pace", "cool", "call", "rlcool"}}
inFlight == {k \in 1..Len(task) : task[k].pc = "call"}

\* The three forms of a placeholder handleQueryError stores for an Error.
IsPlaceholder(v) ==
    \/ v \in {PlaceholderRateLimit, PlaceholderUnavailable}
    \/ /\ Len(v) >= Len(PlaceholderErrorPrefix)
       /\ SubSeq(v, 1, Len(PlaceholderErrorPrefix)) = PlaceholderErrorPrefix

(***************************************************************************)
(* The scheduler (Spec).                                                   *)
(***************************************************************************)
\* C1: at every point of a run at most maxConcurrentRequests = 3 query tasks
\* hold a slot: activeRequests counts exactly the tasks between activeRequests++
\* and activeRequests--, it never exceeds 3, and so no more than 3 remote calls
\* are in flight, whatever the order and the time at which the calls complete.
SlotsNeverExceeded ==
    /\ activeRequests = Cardinality(holders)
    /\ activeRequests <= maxConcurrentRequests
    /\ Cardinality(inFlight) <= maxConcurrentRequests

\* Three calls are in flight and two tasks have been polling for a slot.
SlotsAllTaken ==
    /\ activeRequests = maxConcurrentRequests
    /\ Cardinality(inFlight) = maxConcurrentRequests
    /\ Cardinality({k \in 1..Len(task) : task[k].pc = "wait" /\ task[k].waited > 0}) = 2

\* C2: once all query tasks of a session have settled and its record has been
\* pushed, the record holds a value for every query name of the run.
EveryQueryHasValue ==
    \A s \in pushed : \A k \in 1..NumQueries : answer(s, k) # Undefined

\* C8: for a query that asks to extract column "participant identifier", the
\* record of a finished session holds the participantIdentifier of the first
\* message of the session that has one; when no message has one, the query went
\* to the completion service.
ParticipantIdentifierExtracted ==
    \A s \in pushed : \A k \in 1..NumQueries :
        queryData[k].queryDescription = QDescPid =>
            LET own == ownMessages(s)
                first == firstNonEmpty(own, KeyParticipantIdentifier)
            IN  IF first # 0
                THEN answer(s, k) = Get(own[first], KeyParticipantIdentifier)
                ELSE calls[s][k] > 0

\* C9: when the message list, the query list or the credential is empty,
\* processData returns null after exactly one error notification and nothing
\* else: no record, no task, no remote call, and isProcessing is never set.
MissingInputDoesNothing ==
    (chatData = <<>> \/ queryData = <<>> \/ apiKey = <<>>) =>
        /\ pc \in {"idle", "done"}
        /\ isProcessing = FALSE
        /\ setIsProcessingLog = <<>>
        /\ sessionResults = <<>>
        /\ processedResults = <<>>
        /\ task = <<>>
        /\ calls = <<>>
        /\ toasts.success = 0 /\ toasts.rateLimit = 0
        /\ IF pc = "idle"
           THEN toasts.error = 0 /\ returned = "pending"
           ELSE toasts.error = 1 /\ returned = "null"

\* processData has returned on messages and queries given without a credential.
ReturnedWithoutCredential ==
    /\ chatData # <<>> /\ queryData # <<>> /\ apiKey = <<>>
    /\ pc = "done"
    /\ returned = "null"

(***************************************************************************)
(* The grouper (SpecGroup).                                                *)
(***************************************************************************)
\* C3: the list processData returns has one record for each distinct sessionId
\* of the input, and no two of its records carry the same (sanitized) sessionId.
DistinctSessionRecords ==
    returned = "list" =>
        /\ Len(processedResults) = Len(firstSeen)
        /\ \A i, j \in 1..Len(processedResults) :
              i # j => Get(sessionResults[processedResults[i]], KeySessionId)
                         # Get(sessionResults[processedResults[j]], KeySessionId)

\* C4: the i-th record of the list processData returns is the record of the
\* i-th sessionId in the order of first appearance in the input.
FirstSeenOrder ==
    returned = "list" =>
        /\ Len(processedResults) = Len(firstSeen)
        /\ \A i \in 1..Len(processedResults) :
              Get(sessionResults[processedResults[i]], KeySessionId)
                  = sanitizeString(firstSeen[i])

DirectAnswerFromOwnSession ==
    \A s \in pushed : \A k \in 1..NumQueries :
        outcome[s][k] = "direct" =>
            LET own == ownMessages(s)
                m == directMatch(extractColumnName(queryData[k]), own)
            IN  /\ m.matched
                /\ answer(s, k) = sanitizeString(Get(own[m.index], m.key))
                /\ calls[s][k] = 0

(***************************************************************************)
(* The resolver (SpecExtract).                                             *)
(***************************************************************************)
\* C7: for a query that names a column, when some message of the session has a
\* field whose key is the column name up to case and whose value is non-empty
\* after trimming, the resolver matches and the answer is the value of the first
\* such message.
ResolverMatchesAnyMessage ==
    \A s \in pushed : \A k \in 1..NumQueries :
        LET own == ownMessages(s)
            columnName == extractColumnName(queryData[k])
            carries(i) ==
                {j \in 1..Len(own[i]) :
                    /\ toLowerCase(own[i][j][1]) = toLowerCase(columnName)
                    /\ nonEmptyField(own[i], own[i][j][1])}
            hits == {i \in 1..Len(own) : carries(i) # {}}
        IN  (isColumnExtractionQuery(queryData[k]) /\ Truthy(columnName) /\ hits # {}) =>
                LET i == CHOOSE x \in hits : \A y \in hits : x <= y
                    j == CHOOSE x \in carries(i) : TRUE
                IN  /\ outcome[s][k] = "direct"
                    /\ answer(s, k) = sanitizeString(own[i][j][2])

(***************************************************************************)
(* The completion client (SpecService).                                    *)
(***************************************************************************)
\* C10: on inputs that pass the validation, a remote call that fails (429, 503,
\* 504, another status, a response without a choice, a rejected fetch) never
\* makes processData return null: every other query of every session is still
\* asked, the list returned has a record for every session, and the answer of
\* the failed query is a placeholder.
CallFailureIsContained ==
    /\ returned # "null"
    /\ \A s \in 1..Len(sessionResults) : \A k \in 1..NumQueries :
          /\ outcome[s][k] = "failed" =>
                calls[s][k] = 1 /\ IsPlaceholder(answer(s, k))
          /\ outcome[s][k] = "answered" =>
                calls[s][k] = 1 /\ answer(s, k) = Text42
    /\ pc = "done" =>
          /\ returned = "list"
          /\ Len(processedResults) = Len(firstSeen)
          /\ \A i \in 1..Len(firstSeen) :
                Get(sessionResults[processedResults[i]], KeySessionId) = firstSeen[i]
          /\ \A s \in pushed : \A k \in 1..NumQueries :
                outcome[s][k] \in {"answered", "failed"}

\* The first call of the run was rate-limited, and processData has returned the
\* list with the placeholder and the answers to the five other calls.
ReturnedAfterFailure ==
    /\ pc = "done"
    /\ returned = "list"
    /\ outcome[1][1] = "failed"
    /\ answer(1, 1) = PlaceholderRateLimit
    /\ \A s \in 1..2 : \A k \in 1..3 : <<s, k>> # <<1, 1>> => answer(s, k) = Text42

(***************************************************************************)
(* The isProcessing flag (SpecGroup: runs that return the list and runs    *)
(* that end in the outer catch).                                           *)
(***************************************************************************)
\* C11: in a run on inputs that pass the validation, isProcessing is false
\* before the run, is set to true before any query is processed, is true for
\* as long as the run lasts, and is set to false once, when processData
\* returns, be it with the list or with null after an exception.
ProcessingFlagLifecycle ==
    (chatData # <<>> /\ queryData # <<>> /\ apiKey # <<>>) =>
        /\ pc = "idle" => isProcessing = FALSE /\ setIsProcessingLog = <<>>
        /\ pc \in {"launch", "await"} =>
              isProcessing = TRUE /\ setIsProcessingLog = <<TRUE>>
        /\ pc = "done" =>
              /\ isProcessing = FALSE
              /\ setIsProcessingLog = <<TRUE, FALSE>>
              /\ returned \in {"list", "null"}
        /\ (\E s \in 1..Len(outcome) : \E k \in 1..NumQueries : outcome[s][k] # "none")
              => setIsProcessingLog # <<>> /\ setIsProcessingLog[1] = TRUE

\* A run on a message whose sessionId is "valueOf" has ended in the outer catch.
ProcessingEndedByException ==
    /\ chatData # <<>>
    /\ pc = "done"
    /\ returned = "null"
    /\ isProcessing = FALSE
    /\ setIsProcessingLog = <<TRUE, FALSE>>

UnavailableAnswer ==
    \A s \in 1..Len(received) : \A k \in 1..NumQueries :
        (~received[s][k].transport /\ received[s][k].status \in {503, 504})
            => /\ answer(s, k) = PlaceholderUnavailable
               /\ s = cur => task[k].pc # "rlcool"

(***************************************************************************)
(* The rate-limit cooldown (SpecLive).                                     *)
(***************************************************************************)
\* C13: once a call has been answered 429, the consecutive-call counter counts
\* as reset: a task that leaves the slot loop while the cooldown of the
\* rate-limited task is running computes its pacing delay from counter value 0,
\* that is, it awaits delay(0).
PacingAfterRateLimit ==
    [][\A k \in 1..Len(task) :
          ( /\ \E j \in 1..Len(task) : task[j].pc = "rlcool"
            /\ task[k].pc \in {"new", "wait"}
            /\ Len(task') = Len(task)
            /\ task'[k].pc = "pace" )
          => task'[k].timer = 0]_vars

(***************************************************************************)
(* The slots (SpecSlots).                                                  *)
(***************************************************************************)
\* C14: after every step activeRequests is not negative and counts exactly the
\* tasks that have incremented it and not yet decremented it (a task between
\* its activeRequests++ and its finally block), whether the task ended with an
\* answer, a failure, a rate limit or a directly extracted value; the step that
\* skips a task on queue timeout leaves the counter as it was; and the counter
\* is 0 when all tasks of the session have settled and when the run has ended.
SlotAccounting ==
    [][/\ activeRequests' >= 0
       /\ activeRequests' = Cardinality(holders')
       /\ allSettled' => activeRequests' = 0
       /\ pc' = "done" => activeRequests' = 0
       /\ \A k \in 1..Len(task) :
             ( /\ Len(task') = Len(task)
               /\ outcome[cur][k] # "skipped"
               /\ outcome'[cur][k] = "skipped" )
             => /\ task[k].pc = "wait"
                /\ activeRequests' = activeRequests]_vars

\* The run has ended with one call rate-limited, two answered and the fourth
\* query skipped on queue timeout, and no slot is taken.
SlotsAllReleased ==
    /\ pc = "done"
    /\ activeRequests = 0
    /\ \E k \in 1..3 : outcome[1][k] = "failed" /\ answer(1, k) = PlaceholderRateLimit
    /\ \E k \in 1..3 : outcome[1][k] = "answered"
    /\ outcome[1][4] = "skipped"

(***************************************************************************)
(* What processData hands to its caller (SpecService).                     *)
(***************************************************************************)
\* C15: processData returns null or the list, and only when it has ended; the
\* list it returns holds the record of every session of chatData, in order;
\* when it is returned, every query task of every session has settled with an
\* outcome, no task of the run is pending and no slot is taken, so that
\* nothing is left to modify a returned record.
ReturnsWholeList ==
    /\ returned \in {"pending", "null", "list"}
    /\ returned # "pending" <=> pc = "done"
    /\ returned = "null" => processedResults = <<>>
    /\ returned = "list" =>
          /\ Len(sessionResults) = Len(firstSeen)
          /\ processedResults = [i \in 1..Len(sessionResults) |-> i]
          /\ \A k \in 1..Len(task) : task[k].pc = "done"
          /\ activeRequests = 0
          /\ \A s \in 1..Len(sessionResults) : \A k \in 1..NumQueries :
                outcome[s][k] # "none"

\* The list of both sessions has been returned, the last call of the run having
\* failed.
WholeListReturned ==
    /\ returned = "list"
    /\ processedResults = <<1, 2>>
    /\ outcome[2][3] = "failed"
    /\ \A k \in 1..3 : outcome[1][k] = "answered"

(***************************************************************************)
(* sanitizeString applied twice (SpecSanitize).                            *)
(***************************************************************************)
\* C16: sanitizeString applied to its own result returns that result: for
\* every string, sanitizeString(sanitizeString(s)) = sanitizeString(s).
SanitizeIdempotent ==
    Len(sanitized) = 2 =>
        /\ sanitized[1] = sanitizeString(text)
        /\ sanitized[2] = sanitized[1]

\* A string of a removed control, a unit above \xFF, a tab and "a" has been
\* sanitized twice: the control is gone and the wide unit is a space.
SanitizedTwice ==
    /\ text = <<14, 256, 9, 97>>
    /\ sanitized = << <<32, 9, 97>>, <<32, 9, 97>> >>

(***************************************************************************)
(* The end of the run (SpecLive).                                          *)
(***************************************************************************)
\* C18: timers firing and every issued call being answered at some time, a run
\* with valid inputs eventually ends: once processData is called, it
\* eventually has returned and isProcessing is false, whatever calls were slow
\* or rate-limited and whatever tasks were skipped on queue timeout.
RunEventuallyEnds ==
    (pc # "idle") ~> (pc = "done" /\ returned # "pending" /\ isProcessing = FALSE)

\* The run has ended after a slow call that was rate-limited in the end and a
\* skip of the fourth query.
RunEndedAfterSkip ==
    /\ pc = "done"
    /\ returned = "list"
    /\ isProcessing = FALSE
    /\ outcome[1] = <<"failed", "answered", "answered", "skipped">>
    /\ toasts.rateLimit = 1

(***************************************************************************)
(* The resolver and the slots (Spec).                                      *)
(***************************************************************************)
\* C19: a query the resolver can answer from the messages of the session in
\* hand does not enter the slot loop: its task is never waiting for a slot
\* and is never skipped on queue timeout.
ResolvableNeverQueued ==
    \A k \in 1..Len(task) :
        (task[k].pc = "wait" \/ outcome[cur][k] = "skipped") =>
            ~ /\ isColumnExtractionQuery(queryData[k])
              /\ directMatch(extractColumnName(queryData[k]), ownMessages(cur)).matched

(***************************************************************************)
(* The wait for a slot (SpecLive).                                         *)
(***************************************************************************)
\* C20: a task in the slot loop has a poll timer of at most 100 ms, polls at
\* the multiples of 100 ms since it began to wait, and has waited at most
\* 10 s plus one poll; a task is skipped only from the loop, after more than
\* 10 s in it, without a remote call and without a change of the slots, and
\* it stays skipped; and from any state with a waiting or skipped task the
\* run comes to its end with the list, every task having left the loop.
QueueWaitBounded ==
    /\ [](\A k \in 1..Len(task) :
            /\ task[k].pc = "wait" =>
                  /\ task[k].timer \in 0..pollDelayMs
                  /\ (task[k].waited + task[k].timer) % pollDelayMs = 0
                  /\ task[k].waited <= maxQueueWaitTime + pollDelayMs
                  /\ calls[cur][k] = 0
            /\ outcome[cur][k] = "skipped" =>
                  /\ task[k].pc = "done"
                  /\ calls[cur][k] = 0)
    /\ [][\A k \in 1..Len(task) :
            Len(task') = Len(task) =>
              /\ outcome[cur][k] = "skipped" =>
                    outcome'[cur][k] = "skipped" /\ task'[k] = task[k]
              /\ (outcome[cur][k] # "skipped" /\ outcome'[cur][k] = "skipped") =>
                    /\ task[k].pc = "wait"
                    /\ task[k].waited > maxQueueWaitTime
                    /\ UNCHANGED <<calls, activeRequests>>]_vars
    /\ (\E k \in 1..Len(task) : task[k].pc = "wait" \/ outcome[cur][k] = "skipped")
          ~> /\ pc = "done"
             /\ returned = "list"
             /\ \A k \in 1..Len(task) : task[k].pc = "done"

\* The fourth task has been skipped after 10100 ms in the loop while the
\* three calls before it are still in flight.
SkippedWhileCallsInFlight ==
    /\ pc = "await"
    /\ outcome[1][4] = "skipped"
    /\ \A k \in 1..3 : task[k].pc = "call"
    /\ calls[1] = <<1, 1, 1, 0>>

(***************************************************************************)
(* The sessions one after another (SpecSessions).                          *)
(***************************************************************************)
\* C21: the records pushed are those of the sessions before the one in hand,
\* in order (and that of the last session once the run has ended); a pushed
\* or earlier session has an outcome for every query; no task of a later
\* session has started: it has no outcome, no call and no response; and a
\* task of the session in hand that has ended has an outcome.
SessionsInOrder ==
    /\ processedResults = [i \in 1..(IF pc = "done" THEN cur ELSE cur - 1) |-> i]
    /\ \A s \in 1..Len(sessionResults) : \A k \in 1..NumQueries :
          /\ (s < cur \/ s \in pushed) => outcome[s][k] # "none"
          /\ s > cur => /\ outcome[s][k] = "none"
                        /\ calls[s][k] = 0
                        /\ received[s][k] = NoResponse
          /\ (s = cur /\ task[k].pc = "done") => outcome[s][k] # "none"
          /\ (s = cur /\ task[k].pc = "new") => outcome[s][k] = "none"

\* The first session has been pushed with its fourth query skipped, and in
\* the second session three calls are in flight and the fourth task waits.
SecondSessionUnderWay ==
    /\ cur = 2
    /\ processedResults = <<1>>
    /\ outcome[1][4] = "skipped"
    /\ \A k \in 1..3 : task[k].pc = "call"
    /\ task[4].pc = "wait"

(***************************************************************************)
(* The pacing of the calls (SpecPacing).                                   *)
(***************************************************************************)
\* C22: the step that issues a remote call leaves the counter at 5 or less; a
\* task whose pacing step takes the counter above 5 issues no call in that
\* step and awaits delay(1500); and a task leaves that cooldown only when its
\* timer is due, setting the counter to 0 and issuing its call.
CallsUnderThreshold ==
    [][\A k \in 1..Len(task) :
          (Len(task') = Len(task) /\ cur' = cur) =>
            /\ calls'[cur][k] > calls[cur][k] =>
                  consecutiveApiCalls' <= cooldownThreshold
            /\ ( /\ task[k].pc = "pace"
                 /\ task'[k].pc # "pace"
                 /\ consecutiveApiCalls' > cooldownThreshold ) =>
                  /\ task'[k] = Awaiting("cool", cooldownDelayMs)
                  /\ calls'[cur][k] = calls[cur][k]
            /\ (task[k].pc = "cool" /\ task'[k].pc # "cool") =>
                  /\ task[k].timer = 0
                  /\ consecutiveApiCalls' = 0
                  /\ task'[k].pc = "call"
                  /\ calls'[cur][k] = calls[cur][k] + 1]_vars

\* In the second session two tasks took the counter to 6 and 7 and waited the
\* cooldown together: the second task has reset the counter and issued its
\* call, the third one is due.
CooldownsOverlap ==
    /\ cur = 2
    /\ consecutiveApiCalls = 0
    /\ task[2].pc = "call"
    /\ task[3].pc = "cool" /\ task[3].timer = 0

\* The tasks of the session in hand that have begun their pacing step.
begunPacing ==
    {j \in 1..Len(task) : task[j].pc \notin {"new", "wait"}
                            /\ outcome[cur][j] # "skipped"}

\* C23: in the first session of a run whose calls are all answered (the counter
\* is never reset there), the delay a task awaits when it leaves the slot loop
\* is 800 ms x min(n, 3), n being the number of tasks that have begun their
\* pacing step before it.
PacingCountsBegunTasks ==
    [][\A k \in 1..Len(task) :
          ( /\ cur = 1 /\ cur' = 1
            /\ Len(task') = Len(task)
            /\ task[k].pc \in {"new", "wait"}
            /\ task'[k].pc = "pace" ) =>
            task'[k].timer =
                baseDelayMs * (IF Cardinality(begunPacing) < maxDelayFactor
                               THEN Cardinality(begunPacing) ELSE maxDelayFactor)]_vars

(***************************************************************************)
(* One call for a pair (SpecSlots).                                        *)
(***************************************************************************)
\* C24: after every step each (session, query) pair has had at most one remote
\* call: none when the query was answered by direct extraction or skipped,
\* exactly one when it was answered or failed; and the number of calls of a
\* pair that has an outcome does not change any more.
OneCallPerPair ==
    [][\A s \in 1..Len(calls') : \A k \in 1..NumQueries :
          /\ calls'[s][k] <= 1
          /\ outcome'[s][k] \in {"direct", "skipped", "threw"} => calls'[s][k] = 0
          /\ outcome'[s][k] \in {"answered", "failed"} => calls'[s][k] = 1
          /\ (Len(calls) = Len(calls') /\ outcome[s][k] # "none") =>
                calls'[s][k] = calls[s][k]]_vars

\* The run has ended: the rate-limited call was not repeated after its
\* cooldown, and the fourth query got its value without a call.
NoSecondAttempt ==
    /\ pc = "done"
    /\ toasts.rateLimit = 1
    /\ outcome[1][4] = "direct"
    /\ calls[1] = <<1, 1, 1, 0>>
    /\ \E k \in 1..3 : outcome[1][k] = "failed"

(***************************************************************************)
(* What counts as a rate limit (SpecService).                              *)
(***************************************************************************)
\* The pairs whose call was answered with HTTP status 429.
rateLimited ==
    {p \in (1..Len(received)) \X (1..NumQueries) :
        ~received[p[1]][p[2]].transport /\ received[p[1]][p[2]].status = 429}

\* C25: the rate-limit placeholder is stored, and the 6 s cooldown is awaited,
\* only for a pair whose call was answered with status 429, and the
\* rate-limit notification has been shown once for each such response.
RateLimitOnlyOn429 ==
    /\ \A s \in 1..Len(received) : \A k \in 1..NumQueries :
          (answer(s, k) = PlaceholderRateLimit \/ (s = cur /\ task[k].pc = "rlcool"))
              => <<s, k>> \in rateLimited
    /\ toasts.rateLimit = Cardinality(rateLimited)

(***************************************************************************)
(* The values stored in the records (SpecAnswer).                          *)
(***************************************************************************)
\* C26: the answer stored for a call that succeeded is a fixed point of
\* sanitizeString and of trim: it has no leading or trailing white space.
AnswerTrimmedAndSanitized ==
    \A s \in 1..Len(sessionResults) : \A k \in 1..NumQueries :
        outcome[s][k] = "answered" =>
            /\ sanitizeString(answer(s, k)) = answer(s, k)
            /\ trim(answer(s, k)) = answer(s, k)

\* C27: every value of every record is a fixed point of sanitizeString: it
\* has no code unit above xFF and none of the removed control characters.
StoredValuesSanitized ==
    \A s \in 1..Len(sessionResults) : \A i \in 1..Len(sessionResults[s]) :
        LET v == sessionResults[s][i][2]
        IN  /\ sanitizeString(v) = v
            /\ \A j \in 1..Len(v) : v[j] <= 255 /\ v[j] \notin RemovedControls

\* The run has ended with values that sanitizeString changed: the second
\* identifier, the date and the participant of the first session, the answer
\* to the text of U+0100, U+0001, "a", and the placeholder of the failure with
\* that text as message.
ChangedValuesStored ==
    /\ pc = "done"
    /\ text = <<256, 1, 97>>
    /\ Get(sessionResults[2], KeySessionId) = IdA
    /\ Get(sessionResults[1], KeyStartDate) = <<51, 32>>
    /\ answer(1, 1) = <<112, 32>>
    /\ answer(1, 2) = <<32, 97>>
    /\ answer(2, 2) = PlaceholderErrorPrefix \o <<32, 97>>

\* C28: the message sequence a session's tasks work on (line 70), for direct
\* extraction and for the transcript, is the group the record in hand was built
\* from (lines 46-55), for every session identifier, also one that
\* sanitization changes.
RecordReadsOwnGroup ==
    cur \in 1..Len(sessionResults) =>
        sessionMessages = ArrayOf(ownMessages(cur))

(***************************************************************************)
(* The record's fields under every choice of query names (SpecNames).      *)
(***************************************************************************)
\* The query lists: up to two queries, whose queryName may be "sessionId",
\* "Start date", or the name of the other query.
MaxQueries == 2
NamedQueries ==
    { Query(KeySessionId, QDescFree), Query(KeyStartDate, QDescPid),
      Query(NameQ1, QDescFree), Query(NameQ1, QDescPid), Query(NameWho, QDescFree) }

InitNames ==
    /\ chatData = ServiceChat
    /\ queryData \in SeqsUpTo(NamedQueries, MaxQueries)
    /\ apiKey = KeySk
    /\ service = {Answer42, HttpResponse(500, TextBadKey, Undefined)}
    /\ text = <<>>
    /\ Idle

NextNames ==
    \/ Begin
    \/ \E k \in 1..NumQueries : TaskStart(k)
    \/ \E k \in 1..Len(task) : PaceWake(k)
    \/ \E k \in 1..Len(task), r \in service : Respond(k, r)
    \/ Tick
    \/ EndSession

SpecNames == InitNames /\ [][NextNames]_vars

\* C29: resolving a query only adds its answer to the record: no step changes
\* the sessionId or the "Start date" of a record, whatever the query names, and
\* no step changes the answer of a query that had settled before the step.
RecordOnlyAppended ==
    [][ \A s \in 1..Len(sessionResults) :
          /\ Get(sessionResults'[s], KeySessionId) = Get(sessionResults[s], KeySessionId)
          /\ Get(sessionResults'[s], KeyStartDate) = Get(sessionResults[s], KeyStartDate)
          /\ \A k \in 1..NumQueries :
                outcome[s][k] \in {"direct", "answered", "failed"} =>
                    Get(sessionResults'[s], queryData[k].queryName) = answer(s, k)
      ]_vars

\* C30: while the 6 s cooldown after a rate-limit error is running (time has
\* passed since it began and its timer has time left), no step of the run
\* issues a remote call, be it for a task that held a slot when the cooldown
\* began or for one admitted since.
NoCallDuringCooldown ==
    [][ (\E j \in 1..Len(task) :
            /\ task[j].pc = "rlcool"
            /\ task[j].timer > 0
            /\ task[j].timer < rateLimitDelayMs) =>
            calls' = calls ]_vars

====
